---- MODULE Spec2Model ----
(***************************************************************************)
(* Model of the burned-area stack controller (BurnedArea.runBurnedArea),   *)
(* its scene-regression worker pool (parallelSceneRegressionWorker) and    *)
(* the per-scene job (BurnedArea.sceneBoostedRegression with               *)
(* BoostedRegressionConfig.runGenerateConfig and                           *)
(* BoostedRegression.runBoostedRegression).                                *)
(*                                                                         *)
(* The two multiprocessing queues are FIFO sequences with an atomic        *)
(* get_nowait; the external collaborators (processStack, get_model_name,   *)
(* runBurnThreshold, runAnnualBurnSummaries, zip, predict_burned_area)     *)
(* are nondeterministic choices over the outcomes their callers test.      *)
(* A scene name is represented by the number its characters [3:13] spell   *)
(* (three digits of path, three of row, four of year); a work item         *)
(* xml_file is the position of its line in sr_list.                        *)
(***************************************************************************)
EXTENDS Integers, Sequences, FiniteSets, TLC

\* ------------------------------------------------------------- bounds
MaxWorkers == 2      \* largest num_processors explored
MaxInput == 2        \* longest scene list file explored
MaxScenes == 2       \* longest filtered list (input_list.txt) explored
MaxNames == 2        \* size of the random-name space of NamedTemporaryFile
StrayWorkers == 1    \* largest num_processors explored by StraySpec
HangWorkers == 2     \* largest num_processors explored by HangSpec

\* ------------------------------------------------- program constants
ERROR == 1
SUCCESS == 0
FirstYear == 1984    \* earliest year the resolver accepts
StartYearInit == 9999
EndYearInit == 0

\* ------------------------------------------------------- scene names
\* the number spelled by scene_name[3:13], e.g. 0170391984 for
\* LT50170391984072XXX07
SceneOf(p, r, y) == p * 10000000 + r * 10000 + y

PathOf(scene) == scene \div 10000000        \* int(scene_name[3:6])
RowOf(scene) == (scene \div 10000) % 1000   \* int(scene_name[6:9])
YearOf(scene) == scene % 10000              \* int(scene_name[9:13])

Unparsable == -1     \* a name with no integer at those offsets
Parsable(scene) == scene # Unparsable

Years == {1983, 1984, 1985}     \* years of the scenes of the scene list file
KeptYears == {1984, 1985}       \* years of the scenes of input_list.txt

\* the lines a scene list file of the stack of path/row 17/39 can hold
Scenes == {SceneOf(17, 39, y) : y \in Years} \cup {Unparsable}
\* lines naming scenes of another path/row
StrayScenes == {SceneOf(35, 32, y) : y \in Years}
\* the lines of input_list.txt: only their year is read (line 452)
KeptScenes == {SceneOf(17, 39, y) : y \in KeptYears}

Workers == 1..MaxWorkers
Names == 1..MaxNames
Items == 1..MaxScenes     \* xml_file items: positions in the filtered sr_list
CallerDir == "caller_dir"
OutputDir == "output_dir"
NoDir == "unset"
NoStatus == -1       \* the variable status holds no value yet
NoMessage == "none"  \* no error message logged

\* the arguments of runBurnedArea that name a file or a directory
PathArgs == {"sr_list_file", "input_dir", "output_dir", "model_dir"}
\* how the command line of the script can be: every required option given,
\* a required option left out, or -h
CommandLines == {"complete", "incomplete", "help"}

SeqsUpTo(S, n) == UNION {[1..k -> S] : k \in 0..n}

\* the lists processStack can leave in input_list.txt
FilteredLists == SeqsUpTo(KeptScenes, MaxScenes)

VARIABLES
  pc,                 \* position of runBurnedArea
  ret,                \* value runBurnedArea returned (NoStatus before)
  cwd,                \* working directory of the controller process
  mydir,              \* runBurnedArea's saved directory (NoDir before line 325)
  num_processors,     \* argument num_processors
  missing,            \* the path arguments naming nothing that exists
  input_list,         \* content of input_list.txt written by processStack
  sr_list,            \* local sr_list
  path,               \* local path (0 before line 362)
  row,                \* local row (0 before line 363)
  start_year,
  end_year,
  model_file,         \* <<path, row>> given to get_model_name (<<>> before)
  zip_file,           \* <<path, row>> formatted into zip_file (<<>> before)
  work_queue,         \* multiprocessing.Queue of xml_file items
  result_queue,       \* multiprocessing.Queue of statuses
  num_boosted_scenes,
  i,                  \* collecting loop: result_queue.get() calls completed
  started,            \* workers started so far
  worker,             \* per worker: pc, xml_file, config_file, status
  config_dir,         \* whether dir_name/config exists
  descriptor,         \* config dir content: name -> item that wrote it, 0 absent
  logged,             \* ghost: the error message runBurnedArea logged
  years_arg,          \* ghost: <<start_year, end_year>> passed to a stage
  stage,              \* ghost: outcome of each stage invoked by the controller
  dequeues,           \* ghost: item -> times a worker took it off the queue
  job_result,         \* ghost: item -> how its job ended
  deleted_by_other    \* ghost: a job removed a config file it did not write

stackVars == <<path, row, start_year, end_year>>
fileVars == <<model_file, zip_file>>
queueVars == <<work_queue, result_queue, started>>
argVars == <<num_processors, missing>>

vars == <<pc, ret, cwd, mydir, argVars, input_list, sr_list,
          stackVars, fileVars, queueVars, num_boosted_scenes, i, worker,
          config_dir, descriptor, logged, years_arg, stage, dequeues,
          job_result,
          deleted_by_other>>

ctlVars == <<pc, ret, cwd, mydir, argVars, input_list, sr_list,
             stackVars, fileVars, num_boosted_scenes, i, logged, years_arg,
             stage>>
poolVars == <<worker, config_dir, descriptor, dequeues, job_result,
              deleted_by_other>>

Stages == {"SeasonalSummaries", "ModelLookup", "Threshold", "AnnualAggregate",
           "Package"}
YearStages == {"Threshold", "AnnualAggregate"}
NotRun == "not_run"

IdleWorker == [pc |-> "idle", xml_file |-> 0, config_file |-> 0,
               status |-> NoStatus]

\* the state on entry, the position of the controller apart
Entry ==
  /\ ret = NoStatus
  /\ cwd = CallerDir
  /\ mydir = NoDir
  /\ num_processors \in 0..MaxWorkers
  /\ missing \in SUBSET PathArgs
  /\ input_list = <<>>
  /\ sr_list = <<>>
  /\ path = 0
  /\ row = 0
  /\ start_year = StartYearInit
  /\ end_year = EndYearInit
  /\ model_file = <<>>
  /\ zip_file = <<>>
  /\ work_queue = <<>>
  /\ result_queue = <<>>
  /\ num_boosted_scenes = 0
  /\ i = 0
  /\ started = 0
  /\ worker = [w \in Workers |-> IdleWorker]
  /\ config_dir \in BOOLEAN
  /\ descriptor = [n \in Names |-> 0]
  /\ logged = NoMessage
  /\ years_arg = [s \in YearStages |-> <<>>]
  /\ stage = [s \in Stages |-> NotRun]
  /\ dequeues = [x \in Items |-> 0]
  /\ job_result = [x \in Items |-> "none"]
  /\ deleted_by_other = FALSE

Init ==
  /\ pc = "parse_args"
  /\ Entry

\* ------------------------------------------------------------ helpers
\* mutant of YearLoop: the end_year test is an elif of the start_year test
RECURSIVE YearLoopElif(_, _, _, _)
YearLoopElif(list, k, sy, ey) ==
  IF k > Len(list) THEN <<sy, ey>>
  ELSE LET year == YearOf(list[k])
       IN YearLoopElif(list, k + 1,
                       IF year < sy THEN year ELSE sy,
                       IF year < sy THEN ey
                       ELSE IF year > ey THEN year ELSE ey)

\* lines 350-371: the loop computing start_year and end_year
RECURSIVE YearLoop(_, _, _, _)
YearLoop(list, k, sy, ey) ==
  IF k > Len(list) THEN <<sy, ey>>
  ELSE LET year == YearOf(list[k])
       IN YearLoop(list, k + 1,
                   IF year < sy THEN year ELSE sy,
                   IF year > ey THEN year ELSE ey)

\* mutant of PathRowLoop: path and row are read from every scene
RECURSIVE PathRowEveryScene(_, _, _)
PathRowEveryScene(list, k, pr) ==
  IF k > Len(list) THEN pr
  ELSE PathRowEveryScene(list, k + 1, <<PathOf(list[k]), RowOf(list[k])>>)

\* lines 352-363: the same loop, path and row are read when i == 0 only
RECURSIVE PathRowLoop(_, _, _)
PathRowLoop(list, k, pr) ==
  IF k > Len(list) THEN pr
  ELSE PathRowLoop(list, k + 1,
                   IF k = 1 THEN <<PathOf(list[k]), RowOf(list[k])>> ELSE pr)

\* mutant of YearCheck: only end_year is compared with 1984
YearCheckEndOnly(sy, ey) ==
  IF ey < FirstYear THEN "end_year cannot begin before 1984"
  ELSE IF ey < sy THEN "end_year is less than start_year"
  ELSE NoMessage

\* lines 373-393: the three tests of the year range, in order, each with
\* the message it logs before returning ERROR
YearCheck(sy, ey) ==
  IF sy < FirstYear THEN "start_year cannot begin before 1984"
  ELSE IF ey < FirstYear THEN "end_year cannot begin before 1984"
  ELSE IF ey < sy THEN "end_year is less than start_year"
  ELSE NoMessage

\* mutant of LoadQueue: the scenes of start_year are queued as well
RECURSIVE LoadQueueKeepsAll(_, _, _)
LoadQueueKeepsAll(list, k, sy) ==
  IF k > Len(list) THEN <<>>
  ELSE <<k>> \o LoadQueueKeepsAll(list, k + 1, sy)

\* lines 445-460: the loop loading the work queue, skipping start_year scenes
RECURSIVE LoadQueue(_, _, _)
LoadQueue(list, k, sy) ==
  IF k > Len(list) THEN <<>>
  ELSE IF YearOf(list[k]) = sy THEN LoadQueue(list, k + 1, sy)
       ELSE <<k>> \o LoadQueue(list, k + 1, sy)

\* every return statement of runBurnedArea after line 325 that restores the
\* working directory first: os.chdir(mydir); return status
ReturnRestoring(status) ==
  /\ cwd' = mydir
  /\ ret' = status
  /\ pc' = "returned"

\* a return statement without os.chdir(mydir) (lines 308, 312, 321, 434, 481)
ReturnBare(status) ==
  /\ cwd' = cwd
  /\ ret' = status
  /\ pc' = "returned"

\* ------------------------------------------------- controller actions
\* lines 227-301: called without arguments, runBurnedArea takes them from
\* the command line. parse_args() ends the process itself, with status 2 on
\* a missing required option (so the tests of lines 279-297 never fire) and
\* with status 0 after printing the help
ParseArgs ==
  /\ pc = "parse_args"
  /\ \E cmdline \in CommandLines :
        pc' = CASE cmdline = "complete" -> "validate"
                [] cmdline = "incomplete" -> "exit_usage"
                [] OTHER -> "exit_help"
  /\ UNCHANGED <<ret, cwd, mydir, argVars, input_list, sr_list, stackVars,
                 fileVars, queueVars, num_boosted_scenes, i, logged,
                 years_arg, stage>>
  /\ UNCHANGED poolVars

\* lines 305-321: the three tests that return ERROR, in order, each with
\* the message it logs
FirstMissing(absent) ==
  IF "sr_list_file" \in absent
    THEN "Input surface reflectance list file does not exist"
  ELSE IF "input_dir" \in absent THEN "Input directory does not exist"
  ELSE IF "model_dir" \in absent THEN "Model directory does not exist"
  ELSE NoMessage

\* lines 304-328: validation of the arguments, then chdir to output_dir.
\* A missing output directory is made by os.makedirs (line 317), before the
\* model directory is looked for; when os.makedirs raises nothing catches it
Validate ==
  /\ pc = "validate"
  /\ LET early == FirstMissing(missing \ {"model_dir"})
         msg == FirstMissing(missing)
     IN IF early # NoMessage
          THEN /\ ReturnBare(ERROR)
               /\ logged' = early
               /\ UNCHANGED <<mydir, missing>>
          ELSE \E made \in BOOLEAN :
                 IF "output_dir" \in missing /\ ~made
                   THEN /\ pc' = "raised"
                        /\ UNCHANGED <<ret, cwd, mydir, missing, logged>>
                   ELSE /\ missing' = missing \ {"output_dir"}
                        /\ IF msg # NoMessage
                             THEN /\ ReturnBare(ERROR)
                                  /\ logged' = msg
                                  /\ UNCHANGED mydir
                             ELSE /\ mydir' = cwd
                                  /\ cwd' = OutputDir
                                  /\ pc' = "read_list"
                                  /\ UNCHANGED <<ret, logged>>
  /\ UNCHANGED <<num_processors, input_list, sr_list, stackVars, fileVars,
                 queueVars, num_boosted_scenes, i, years_arg, stage>>
  /\ UNCHANGED poolVars

\* lines 333-343: read the scene list file, whose lines are among the given
\* ones; an empty list is an error
ReadLines(lines) ==
  /\ pc = "read_list"
  /\ \E list \in SeqsUpTo(lines, MaxInput) :
        /\ sr_list' = list
        /\ IF Len(list) = 0
             THEN /\ ReturnRestoring(ERROR)
                  /\ logged' = "error reading the list of scenes"
             ELSE /\ pc' = "resolve"
                  /\ UNCHANGED <<ret, cwd, logged>>
  /\ UNCHANGED <<mydir, argVars, input_list, stackVars, fileVars,
                 queueVars, num_boosted_scenes, i, years_arg, stage>>
  /\ UNCHANGED poolVars

\* the scene list file names scenes of the stack's path/row
ReadList == ReadLines(Scenes)

\* the scene list file may also name scenes of another path/row
ReadListStray == ReadLines(Scenes \cup StrayScenes)

\* lines 348-393: path/row and year range of the stack, and its validation.
\* int() raises ValueError on a name it cannot parse: nothing catches it,
\* the exception leaves runBurnedArea
Resolve ==
  /\ pc = "resolve"
  /\ IF \E k \in 1..Len(sr_list) : ~Parsable(sr_list[k])
       THEN /\ pc' = "raised"
            /\ UNCHANGED <<ret, cwd, stackVars, logged>>
       ELSE LET yrs == YearLoop(sr_list, 1, StartYearInit, EndYearInit)
                pr == PathRowLoop(sr_list, 1, <<path, row>>)
                msg == YearCheck(yrs[1], yrs[2])
            IN /\ path' = pr[1]
               /\ row' = pr[2]
               /\ start_year' = yrs[1]
               /\ end_year' = yrs[2]
               /\ IF msg # NoMessage
                    THEN /\ ReturnRestoring(ERROR)
                         /\ logged' = msg
                    ELSE /\ pc' = "seasonal"
                         /\ UNCHANGED <<ret, cwd, logged>>
  /\ UNCHANGED <<mydir, argVars, input_list, sr_list, fileVars,
                 queueVars, num_boosted_scenes, i, years_arg, stage>>
  /\ UNCHANGED poolVars

\* mutant of StageFailed: the status test never fires
StageFailedIgnored(status) == status > ERROR

\* what the controller does with the status of a delegated stage
\* (lines 406-410, 489-492, 499-502)
StageFailed(status) == status # SUCCESS

\* lines 400-410: processStack; it writes input_list.txt
SeasonalSummaries ==
  /\ pc = "seasonal"
  /\ \E status \in {SUCCESS, ERROR}, list \in FilteredLists :
        /\ stage' = [stage EXCEPT !["SeasonalSummaries"] =
                       IF status = SUCCESS THEN "SUCCESS" ELSE "ERROR"]
        /\ IF StageFailed(status)
             THEN /\ ReturnRestoring(ERROR)
                  /\ logged' = "Error running seasonal summaries"
                  /\ input_list' = <<>>
             ELSE /\ pc' = "read_filtered"
                  /\ input_list' = list
                  /\ UNCHANGED <<ret, cwd, logged>>
  /\ UNCHANGED <<mydir, argVars, sr_list, stackVars, fileVars,
                 queueVars, num_boosted_scenes, i, years_arg>>
  /\ UNCHANGED poolVars

\* mutant of ReadFiltered: sr_list is not read again from input_list.txt
ReadFilteredKeepsOriginal ==
  /\ pc = "read_filtered"
  /\ IF Len(input_list) = 0
       THEN /\ ReturnRestoring(ERROR)
            /\ logged' = "no scenes left after excluding L1G products"
       ELSE /\ pc' = "model_lookup"
            /\ UNCHANGED <<ret, cwd, logged>>
  /\ UNCHANGED <<mydir, argVars, input_list, sr_list, stackVars,
                 fileVars, queueVars, num_boosted_scenes, i, years_arg,
                 stage>>
  /\ UNCHANGED poolVars

\* lines 412-425: read the filtered list; an empty list is an error
ReadFiltered ==
  /\ pc = "read_filtered"
  /\ sr_list' = input_list
  /\ IF Len(input_list) = 0
       THEN /\ ReturnRestoring(ERROR)
            /\ logged' = "no scenes left after excluding L1G products"
       ELSE /\ pc' = "model_lookup"
            /\ UNCHANGED <<ret, cwd, logged>>
  /\ UNCHANGED <<mydir, argVars, input_list, stackVars, fileVars,
                 queueVars, num_boosted_scenes, i, years_arg, stage>>
  /\ UNCHANGED poolVars

\* mutant of ModelMissing: a missing model file goes unnoticed
ModelMissingIgnored(exists) == FALSE

\* line 431: if not os.path.exists(self.model_file)
ModelMissing(exists) == ~exists

\* lines 427-434: the model file of the path/row must exist
ModelLookup ==
  /\ pc = "model_lookup"
  /\ model_file' = <<path, row>>
  /\ \E exists \in BOOLEAN :
        /\ stage' = [stage EXCEPT !["ModelLookup"] =
                       IF exists THEN "SUCCESS" ELSE "ERROR"]
        /\ IF ModelMissing(exists)
             THEN /\ ReturnBare(ERROR)
                  /\ logged' = "Model file for path/row does not exist"
             ELSE /\ pc' = "load_queue"
                  /\ UNCHANGED <<ret, cwd, logged>>
  /\ UNCHANGED <<mydir, argVars, input_list, sr_list, stackVars,
                 zip_file, queueVars, num_boosted_scenes, i, years_arg>>
  /\ UNCHANGED poolVars

\* mutant of Enqueue: the first worker is started while the queue is loaded
EnqueueStartsWorker ==
  /\ pc = "load_queue"
  /\ work_queue' = LoadQueue(sr_list, 1, start_year)
  /\ num_boosted_scenes' = Len(work_queue')
  /\ result_queue' = <<>>
  /\ pc' = "spawn"
  /\ IF num_processors >= 1
       THEN /\ started' = 1
            /\ worker' = [worker EXCEPT ![1].pc = "get"]
       ELSE UNCHANGED <<started, worker>>
  /\ UNCHANGED <<ret, cwd, mydir, argVars, input_list, sr_list,
                 stackVars, fileVars, i, logged, years_arg, stage>>
  /\ UNCHANGED <<config_dir, descriptor, dequeues, job_result,
                 deleted_by_other>>

\* lines 440-463: load the work queue, create the result queue
Enqueue ==
  /\ pc = "load_queue"
  /\ work_queue' = LoadQueue(sr_list, 1, start_year)
  /\ num_boosted_scenes' = Len(work_queue')
  /\ result_queue' = <<>>
  /\ pc' = "spawn"
  /\ UNCHANGED <<ret, cwd, mydir, argVars, input_list, sr_list,
                 stackVars, fileVars, i, logged, years_arg, stage, started>>
  /\ UNCHANGED poolVars

\* lines 470-473: one iteration of the loop starting the workers
SpawnWorker ==
  /\ pc = "spawn"
  /\ started < num_processors
  /\ started' = started + 1
  /\ worker' = [worker EXCEPT ![started + 1].pc = "get"]
  /\ UNCHANGED ctlVars
  /\ UNCHANGED <<work_queue, result_queue, config_dir, descriptor,
                 dequeues, job_result, deleted_by_other>>

\* line 470: the spawning loop ends
SpawnDone ==
  /\ pc = "spawn"
  /\ started >= num_processors
  /\ pc' = "collect"
  /\ UNCHANGED <<ret, cwd, mydir, argVars, input_list, sr_list,
                 stackVars, fileVars, queueVars, num_boosted_scenes, i,
                 logged, years_arg, stage>>
  /\ UNCHANGED poolVars

\* mutant of CollectLoopEnds: the loop stops one result short
CollectLoopEndsEarly == i + 1 >= num_boosted_scenes

\* line 476: the collecting loop runs num_boosted_scenes times
CollectLoopEnds == i >= num_boosted_scenes

\* mutant of ResultFailed: a failure status is not recognised
ResultFailedIgnored(status) == status > ERROR

\* lines 478-481: a non-SUCCESS status ends runBurnedArea at once
ResultFailed(status) == status # SUCCESS

\* lines 476-481: one iteration of the collecting loop (a blocking get)
Collect ==
  /\ pc = "collect"
  /\ ~CollectLoopEnds
  /\ result_queue # <<>>
  /\ LET status == Head(result_queue)
     IN /\ result_queue' = Tail(result_queue)
        /\ i' = i + 1
        /\ IF ResultFailed(status)
             THEN /\ ReturnBare(ERROR)
                  /\ logged' = "Error in boosted regression for XML file"
             ELSE UNCHANGED <<pc, ret, cwd, logged>>
  /\ UNCHANGED <<mydir, argVars, input_list, sr_list, stackVars,
                 fileVars, num_boosted_scenes, years_arg, stage,
                 work_queue, started>>
  /\ UNCHANGED poolVars

\* line 476: the collecting loop ends, the controller goes on to line 483
CollectEnd ==
  /\ pc = "collect"
  /\ CollectLoopEnds
  /\ pc' = "threshold"
  /\ UNCHANGED <<ret, cwd, mydir, argVars, input_list, sr_list,
                 stackVars, fileVars, queueVars, num_boosted_scenes, i,
                 logged, years_arg, stage>>
  /\ UNCHANGED poolVars

\* mutant of AnnualYears: the summaries start at start_year
AnnualYearsFromStart == <<start_year, end_year>>

\* line 487: start_year=start_year+1, end_year=end_year
ThresholdYears == <<start_year + 1, end_year>>

\* line 498: start_year=start_year+1, end_year=end_year
AnnualYears == <<start_year + 1, end_year>>

\* lines 483-492: runBurnThreshold
Threshold ==
  /\ pc = "threshold"
  /\ years_arg' = [years_arg EXCEPT !["Threshold"] = ThresholdYears]
  /\ \E status \in {SUCCESS, ERROR} :
        /\ stage' = [stage EXCEPT !["Threshold"] =
                       IF status = SUCCESS THEN "SUCCESS" ELSE "ERROR"]
        /\ IF StageFailed(status)
             THEN /\ ReturnRestoring(ERROR)
                  /\ logged' = "Error running burn thresholds"
             ELSE /\ pc' = "annual"
                  /\ UNCHANGED <<ret, cwd, logged>>
  /\ UNCHANGED <<mydir, argVars, input_list, sr_list, stackVars,
                 fileVars, queueVars, num_boosted_scenes, i>>
  /\ UNCHANGED poolVars

\* lines 494-502: runAnnualBurnSummaries
AnnualAggregate ==
  /\ pc = "annual"
  /\ years_arg' = [years_arg EXCEPT !["AnnualAggregate"] = AnnualYears]
  /\ \E status \in {SUCCESS, ERROR} :
        /\ stage' = [stage EXCEPT !["AnnualAggregate"] =
                       IF status = SUCCESS THEN "SUCCESS" ELSE "ERROR"]
        /\ IF StageFailed(status)
             THEN /\ ReturnRestoring(ERROR)
                  /\ logged' = "Error running annual burn summaries"
             ELSE /\ pc' = "package"
                  /\ UNCHANGED <<ret, cwd, logged>>
  /\ UNCHANGED <<mydir, argVars, input_list, sr_list, stackVars,
                 fileVars, queueVars, num_boosted_scenes, i>>
  /\ UNCHANGED poolVars

\* mutant of ArchiveMissing: the archive is not looked for
ArchiveMissingIgnored(zipped) == FALSE

\* line 509: if not os.path.exists(zip_file)
ArchiveMissing(zipped) == ~zipped

\* lines 504-522: zip the annual summaries; the archive must exist afterwards
Package ==
  /\ pc = "package"
  /\ zip_file' = <<path, row>>
  /\ \E zipped \in BOOLEAN :
        /\ stage' = [stage EXCEPT !["Package"] =
                       IF zipped THEN "SUCCESS" ELSE "ERROR"]
        /\ IF ArchiveMissing(zipped)
             THEN /\ ReturnRestoring(ERROR)
                  /\ logged' = "Error creating the zip file"
             ELSE /\ ReturnRestoring(SUCCESS)
                  /\ UNCHANGED logged
  /\ UNCHANGED <<mydir, argVars, input_list, sr_list, stackVars,
                 model_file, queueVars, num_boosted_scenes, i, years_arg>>
  /\ UNCHANGED poolVars

\* ----------------------------------------------------- worker actions
\* A worker is its own process: its steps interleave with the controller's
\* and go on after runBurnedArea has returned.
JobResultName(status) == IF status = SUCCESS THEN "SUCCESS" ELSE "ERROR"

\* sceneBoostedRegression returns status to run() (lines 128, 149, 156, 161)
SceneReturns(w, status) ==
  /\ worker' = [worker EXCEPT ![w].pc = "put", ![w].status = status]
  /\ job_result' = [job_result EXCEPT ![worker[w].xml_file] =
                      JobResultName(status)]

\* an exception leaves sceneBoostedRegression and run(): nothing catches it,
\* the worker process ends without putting a status
SceneRaises(w) ==
  /\ worker' = [worker EXCEPT ![w] = [IdleWorker EXCEPT !.pc = "dead"]]
  /\ job_result' = [job_result EXCEPT ![worker[w].xml_file] = "raised"]

\* mutant of GetTask: the item queued last is taken first
GetTaskTakesLast(w) ==
  /\ worker[w].pc = "get"
  /\ IF work_queue = <<>>
       THEN /\ worker' = [worker EXCEPT ![w].pc = "exited"]
            /\ UNCHANGED <<work_queue, dequeues>>
       ELSE LET last == work_queue[Len(work_queue)]
            IN /\ worker' = [worker EXCEPT ![w].pc = "chkdir",
                                            ![w].xml_file = last]
               /\ work_queue' = SubSeq(work_queue, 1, Len(work_queue) - 1)
               /\ dequeues' = [dequeues EXCEPT ![last] = @ + 1]
  /\ UNCHANGED <<result_queue, started, config_dir, descriptor, job_result>>
  /\ UNCHANGED <<ctlVars, deleted_by_other>>

\* lines 48-57: get_nowait; Queue.Empty ends the worker, otherwise the job
\* is called on the item taken
GetTask(w) ==
  /\ worker[w].pc = "get"
  /\ IF work_queue = <<>>
       THEN /\ worker' = [worker EXCEPT ![w].pc = "exited"]
            /\ UNCHANGED <<work_queue, dequeues>>
       ELSE /\ worker' = [worker EXCEPT ![w].pc = "chkdir",
                                        ![w].xml_file = Head(work_queue)]
            /\ work_queue' = Tail(work_queue)
            /\ dequeues' = [dequeues EXCEPT ![Head(work_queue)] = @ + 1]
  /\ UNCHANGED <<result_queue, started, config_dir, descriptor, job_result>>
  /\ UNCHANGED <<ctlVars, deleted_by_other>>

\* line 117: does the config directory exist
CheckConfigDir(w) ==
  /\ worker[w].pc = "chkdir"
  /\ worker' = [worker EXCEPT ![w].pc = IF config_dir THEN "tmp" ELSE "mkdir"]
  /\ UNCHANGED <<work_queue, result_queue, started, config_dir, descriptor,
                 dequeues, job_result>>
  /\ UNCHANGED <<ctlVars, deleted_by_other>>

\* lines 120-122: os.makedirs creates the directory, or raises (a sibling
\* made it meanwhile, or it cannot be made) and the except clause rechecks
MakeConfigDir(w) ==
  /\ worker[w].pc = "mkdir"
  /\ \/ /\ ~config_dir
        /\ config_dir' = TRUE
        /\ worker' = [worker EXCEPT ![w].pc = "tmp"]
     \/ /\ worker' = [worker EXCEPT ![w].pc = "recheck"]
        /\ UNCHANGED config_dir
  /\ UNCHANGED <<work_queue, result_queue, started, descriptor,
                 dequeues, job_result>>
  /\ UNCHANGED <<ctlVars, deleted_by_other>>

\* mutant of ConfigDirMissing: a failed os.makedirs is always an error
ConfigDirMissingAssumed == TRUE

\* line 125: if not os.path.exists(config_dir)
ConfigDirMissing == ~config_dir

\* lines 122-128: the recheck after a failed os.makedirs
RecheckConfigDir(w) ==
  /\ worker[w].pc = "recheck"
  /\ IF ConfigDirMissing
       THEN SceneReturns(w, ERROR)
       ELSE /\ worker' = [worker EXCEPT ![w].pc = "tmp"]
            /\ UNCHANGED job_result
  /\ UNCHANGED <<work_queue, result_queue, started, config_dir, descriptor,
                 dequeues>>
  /\ UNCHANGED <<ctlVars, deleted_by_other>>

\* the names NamedTemporaryFile may return: those of no existing file
FreeNames == {n \in Names : descriptor[n] = 0}

\* lines 130-133: NamedTemporaryFile creates a file of a random unused name
\* and close() deletes it (delete=True); only the name is kept. When every
\* name is in use tempfile raises IOError, which nothing catches.
TempName(w) ==
  /\ worker[w].pc = "tmp"
  /\ IF FreeNames # {}
       THEN /\ \E n \in FreeNames :
                 worker' = [worker EXCEPT ![w].pc = "gen",
                                          ![w].config_file = n]
            /\ UNCHANGED job_result
       ELSE SceneRaises(w)
  /\ UNCHANGED <<work_queue, result_queue, started, config_dir, descriptor,
                 dequeues>>
  /\ UNCHANGED <<ctlVars, deleted_by_other>>

\* mutant of GenerateConfig: the status of runGenerateConfig is not tested
GenerateConfigUnchecked(w) ==
  /\ worker[w].pc = "gen"
  /\ \/ UNCHANGED descriptor
     \/ descriptor' = [descriptor EXCEPT ![worker[w].config_file] =
                         worker[w].xml_file]
  /\ worker' = [worker EXCEPT ![w].pc = "run"]
  /\ UNCHANGED <<work_queue, result_queue, started, config_dir,
                 dequeues, job_result>>
  /\ UNCHANGED <<ctlVars, deleted_by_other>>

\* the existence tests of runGenerateConfig, in the order of the code
\* (generate_boosted_regression_config.py lines 136-166)
ConfigChecks == <<"seasonal_sum_dir", "input_base_file", "input_mask_file",
                  "model_file", "output_dir">>

\* mutant of GenerateConfig: the config file is opened for writing before
\* the existence tests are made
GenerateConfigOpensFirst(w) ==
  /\ worker[w].pc = "gen"
  /\ descriptor' = [descriptor EXCEPT ![worker[w].config_file] =
                      worker[w].xml_file]
  /\ \E failed \in DOMAIN ConfigChecks \cup {0} :
       IF failed # 0
         THEN SceneReturns(w, ERROR)
         ELSE /\ worker' = [worker EXCEPT ![w].pc = "run"]
              /\ UNCHANGED job_result
  /\ UNCHANGED <<work_queue, result_queue, started, config_dir,
                 dequeues>>
  /\ UNCHANGED <<ctlVars, deleted_by_other>>

\* lines 142-149 with runGenerateConfig (lines 136-199 of
\* generate_boosted_regression_config.py): the first of the existence tests
\* that fails (failed, 0 when none does) returns ERROR before the file is
\* opened; when none fails the file is opened for writing and (over)written
GenerateConfig(w) ==
  /\ worker[w].pc = "gen"
  /\ \E failed \in DOMAIN ConfigChecks \cup {0} :
       IF failed # 0
         THEN /\ SceneReturns(w, ERROR)
              /\ UNCHANGED descriptor
         ELSE /\ descriptor' = [descriptor EXCEPT ![worker[w].config_file] =
                                  worker[w].xml_file]
              /\ worker' = [worker EXCEPT ![w].pc = "run"]
              /\ UNCHANGED job_result
  /\ UNCHANGED <<work_queue, result_queue, started, config_dir,
                 dequeues>>
  /\ UNCHANGED <<ctlVars, deleted_by_other>>

\* how one call of predict_burned_area through runBoostedRegression can end
\* (do_boosted_regression.py lines 99-142): the config directory is not
\* writable; exit status zero; CalledProcessError; OSError (not caught)
RunOutcomes == {"unwritable", "exit_zero", "exit_nonzero", "oserror"}

\* what sceneBoostedRegression does after a failed runBoostedRegression
\* (lines 154-156): return ERROR, the config file is left in place
AfterRegressionError(w) ==
  /\ SceneReturns(w, ERROR)
  /\ UNCHANGED descriptor

\* lines 152-156 with runBoostedRegression
RunRegression(w) ==
  /\ worker[w].pc = "run"
  /\ IF descriptor[worker[w].config_file] = 0
       THEN AfterRegressionError(w)
       ELSE \E outcome \in RunOutcomes :
              CASE outcome = "exit_zero" ->
                     /\ worker' = [worker EXCEPT ![w].pc = "remove"]
                     /\ UNCHANGED <<job_result, descriptor>>
                [] outcome \in {"unwritable", "exit_nonzero"} ->
                     AfterRegressionError(w)
                [] OTHER ->
                     /\ SceneRaises(w)
                     /\ UNCHANGED descriptor
  /\ UNCHANGED <<work_queue, result_queue, started, config_dir,
                 dequeues>>
  /\ UNCHANGED <<ctlVars, deleted_by_other>>

\* mutant of RemoveConfig: SUCCESS is returned, the file is left in place
RemoveConfigKeepsFile(w) ==
  /\ worker[w].pc = "remove"
  /\ SceneReturns(w, SUCCESS)
  /\ UNCHANGED <<work_queue, result_queue, started, config_dir, descriptor,
                 dequeues, deleted_by_other>>
  /\ UNCHANGED ctlVars

\* lines 158-161: os.remove(config_file), which raises when the file is gone
RemoveConfig(w) ==
  /\ worker[w].pc = "remove"
  /\ IF descriptor[worker[w].config_file] # 0
       THEN /\ descriptor' = [descriptor EXCEPT ![worker[w].config_file] = 0]
            /\ deleted_by_other' =
                 (deleted_by_other
                  \/ descriptor[worker[w].config_file] # worker[w].xml_file)
            /\ SceneReturns(w, SUCCESS)
       ELSE /\ SceneRaises(w)
            /\ UNCHANGED <<descriptor, deleted_by_other>>
  /\ UNCHANGED <<work_queue, result_queue, started, config_dir,
                 dequeues>>
  /\ UNCHANGED ctlVars

\* mutant of PutResult: a worker whose job failed leaves the loop
PutResultStopsOnFailure(w) ==
  /\ worker[w].pc = "put"
  /\ result_queue' = Append(result_queue, worker[w].status)
  /\ worker' = [worker EXCEPT ![w] =
                  [IdleWorker EXCEPT !.pc = IF worker[w].status = SUCCESS
                                              THEN "get" ELSE "exited"]]
  /\ UNCHANGED <<work_queue, started, config_dir, descriptor,
                 dequeues, job_result>>
  /\ UNCHANGED <<ctlVars, deleted_by_other>>

\* line 64: result_queue.put(status), then back to the top of the loop
PutResult(w) ==
  /\ worker[w].pc = "put"
  /\ result_queue' = Append(result_queue, worker[w].status)
  /\ worker' = [worker EXCEPT ![w] = [IdleWorker EXCEPT !.pc = "get"]]
  /\ UNCHANGED <<work_queue, started, config_dir, descriptor,
                 dequeues, job_result>>
  /\ UNCHANGED <<ctlVars, deleted_by_other>>

Next ==
  \/ ParseArgs
  \/ Validate
  \/ ReadList
  \/ Resolve
  \/ SeasonalSummaries
  \/ ReadFiltered
  \/ ModelLookup
  \/ Enqueue
  \/ SpawnWorker
  \/ SpawnDone
  \/ Collect
  \/ CollectEnd
  \/ Threshold
  \/ AnnualAggregate
  \/ Package
  \/ \E w \in Workers : GetTask(w)
  \/ \E w \in Workers : CheckConfigDir(w)
  \/ \E w \in Workers : MakeConfigDir(w)
  \/ \E w \in Workers : RecheckConfigDir(w)
  \/ \E w \in Workers : TempName(w)
  \/ \E w \in Workers : GenerateConfig(w)
  \/ \E w \in Workers : RunRegression(w)
  \/ \E w \in Workers : RemoveConfig(w)
  \/ \E w \in Workers : PutResult(w)

Spec == Init /\ [][Next]_vars

\* the same program reading scene list files that mix two path/rows, run
\* with few workers
StrayInit == Init /\ num_processors <= StrayWorkers

StrayNext ==
  \/ ParseArgs
  \/ Validate
  \/ ReadListStray
  \/ Resolve
  \/ SeasonalSummaries
  \/ ReadFiltered
  \/ ModelLookup
  \/ Enqueue
  \/ SpawnWorker
  \/ SpawnDone
  \/ Collect
  \/ CollectEnd
  \/ Threshold
  \/ AnnualAggregate
  \/ Package
  \/ \E w \in Workers : GetTask(w)
  \/ \E w \in Workers : CheckConfigDir(w)
  \/ \E w \in Workers : MakeConfigDir(w)
  \/ \E w \in Workers : RecheckConfigDir(w)
  \/ \E w \in Workers : TempName(w)
  \/ \E w \in Workers : GenerateConfig(w)
  \/ \E w \in Workers : RunRegression(w)
  \/ \E w \in Workers : RemoveConfig(w)
  \/ \E w \in Workers : PutResult(w)

StraySpec == StrayInit /\ [][StrayNext]_vars

\* line 130 of do_boosted_regression.py: subprocess.check_output is called
\* without a timeout; when predict_burned_area never ends the call never
\* returns and the worker stays inside runBoostedRegression
RegressionHangs(w) ==
  /\ worker[w].pc = "run"
  /\ descriptor[worker[w].config_file] # 0
  /\ worker' = [worker EXCEPT ![w].pc = "hung"]
  /\ UNCHANGED <<work_queue, result_queue, started, config_dir, descriptor,
                 dequeues, job_result, deleted_by_other>>
  /\ UNCHANGED ctlVars

\* the same program when predict_burned_area may also never end
HangInit == Init /\ num_processors <= HangWorkers

HangNext ==
  \/ ParseArgs
  \/ Validate
  \/ ReadList
  \/ Resolve
  \/ SeasonalSummaries
  \/ ReadFiltered
  \/ ModelLookup
  \/ Enqueue
  \/ SpawnWorker
  \/ SpawnDone
  \/ Collect
  \/ CollectEnd
  \/ Threshold
  \/ AnnualAggregate
  \/ Package
  \/ \E w \in Workers : GetTask(w)
  \/ \E w \in Workers : CheckConfigDir(w)
  \/ \E w \in Workers : MakeConfigDir(w)
  \/ \E w \in Workers : RecheckConfigDir(w)
  \/ \E w \in Workers : TempName(w)
  \/ \E w \in Workers : GenerateConfig(w)
  \/ \E w \in Workers : RunRegression(w)
  \/ \E w \in Workers : RegressionHangs(w)
  \/ \E w \in Workers : RemoveConfig(w)
  \/ \E w \in Workers : PutResult(w)

HangSpec == HangInit /\ [][HangNext]_vars

\* ---------------------------------------- runBoostedRegression alone
\* One call of runBoostedRegression, step by step. The process making the
\* call is worker 1 at line 152; here cwd is the working directory of that
\* process, mydir the local of line 111, ret the value returned and pc the
\* position inside runBoostedRegression.
ConfigDir == "config_dir"
Dirs == {CallerDir, OutputDir, ConfigDir}

RegInit ==
  /\ pc = "reg_isfile"
  /\ ret = NoStatus
  /\ cwd \in Dirs
  /\ mydir = NoDir
  /\ num_processors = 1
  /\ missing = {}
  /\ input_list = <<>>
  /\ sr_list = <<>>
  /\ path = 0
  /\ row = 0
  /\ start_year = StartYearInit
  /\ end_year = EndYearInit
  /\ model_file = <<>>
  /\ zip_file = <<>>
  /\ work_queue = <<>>
  /\ result_queue = <<>>
  /\ num_boosted_scenes = 0
  /\ i = 0
  /\ started = 1
  /\ \E x \in Items, n \in Names :
        worker = [w \in Workers |->
                    IF w = 1 THEN [pc |-> "run", xml_file |-> x,
                                   config_file |-> n, status |-> NoStatus]
                             ELSE IdleWorker]
  /\ config_dir = TRUE
  /\ descriptor \in [Names -> {0} \cup Items]
  /\ logged = NoMessage
  /\ years_arg = [s \in YearStages |-> <<>>]
  /\ stage = [s \in Stages |-> NotRun]
  /\ dequeues = [x \in Items |-> 0]
  /\ job_result = [x \in Items |-> "none"]
  /\ deleted_by_other = FALSE

\* do_boosted_regression.py lines 99-103: the config file must exist
RegIsFile ==
  /\ pc = "reg_isfile"
  /\ IF descriptor[worker[1].config_file] = 0
       THEN /\ ret' = ERROR
            /\ pc' = "reg_returned"
       ELSE /\ pc' = "reg_access"
            /\ UNCHANGED ret
  /\ UNCHANGED <<cwd, mydir, argVars, input_list, sr_list, stackVars,
                 fileVars, queueVars, num_boosted_scenes, i, logged,
                 years_arg, stage>>
  /\ UNCHANGED poolVars

\* do_boosted_regression.py lines 111-122: save the working directory, test
\* the config directory for write access, change to it
RegAccess ==
  /\ pc = "reg_access"
  /\ mydir' = cwd
  /\ \E writable \in BOOLEAN :
        IF ~writable
          THEN /\ ret' = ERROR
               /\ pc' = "reg_returned"
               /\ UNCHANGED cwd
          ELSE /\ cwd' = ConfigDir
               /\ pc' = "reg_call"
               /\ UNCHANGED ret
  /\ UNCHANGED <<argVars, input_list, sr_list, stackVars, fileVars,
                 queueVars, num_boosted_scenes, i, logged, years_arg, stage>>
  /\ UNCHANGED poolVars

\* do_boosted_regression.py lines 126-142: subprocess.check_output returns
\* (exit status zero), raises CalledProcessError (caught at line 132), or
\* raises OSError because predict_burned_area cannot be started (not caught)
RegCall ==
  /\ pc = "reg_call"
  /\ \E outcome \in RunOutcomes \ {"unwritable"} :
        CASE outcome = "exit_zero" ->
               /\ cwd' = mydir
               /\ ret' = SUCCESS
               /\ pc' = "reg_returned"
          [] outcome = "exit_nonzero" ->
               /\ cwd' = mydir
               /\ ret' = ERROR
               /\ pc' = "reg_returned"
          [] OTHER ->
               /\ pc' = "reg_raised"
               /\ UNCHANGED <<cwd, ret>>
  /\ UNCHANGED <<mydir, argVars, input_list, sr_list, stackVars, fileVars,
                 queueVars, num_boosted_scenes, i, logged, years_arg, stage>>
  /\ UNCHANGED poolVars

RegNext == RegIsFile \/ RegAccess \/ RegCall

RegSpec == RegInit /\ [][RegNext]_vars

\* the kinds of worker process: the three classes of parallel_worker.py and
\* parallelSceneRegressionWorker of do_burned_area.py
ParallelWorkerKinds == {"scene_resample", "summary", "maximum"}
Kinds == ParallelWorkerKinds \cup {"regression"}

\* a program that runs a pool of some kind first loads the module defining
\* the worker class. parallel_worker.py does not compile: the statement of
\* lines 39-41 ends in `..format(xml_file)`, a SyntaxError, so none of its
\* three classes comes into being. parallelSceneRegressionWorker is defined
\* in the script itself (lines 31-64), which then runs from line 572
ImportWorkers ==
  /\ pc = "import_workers"
  /\ \E kind \in Kinds :
        pc' = IF kind \in ParallelWorkerKinds THEN "import_failed"
                                              ELSE "parse_args"
  /\ UNCHANGED <<ret, cwd, mydir, argVars, input_list, sr_list, stackVars,
                 fileVars, queueVars, num_boosted_scenes, i, logged,
                 years_arg, stage>>
  /\ UNCHANGED poolVars

KindInit ==
  /\ pc = "import_workers"
  /\ Entry

KindNext ==
  \/ ImportWorkers
  \/ ParseArgs
  \/ Validate
  \/ ReadList
  \/ Resolve
  \/ SeasonalSummaries
  \/ ReadFiltered
  \/ ModelLookup
  \/ Enqueue
  \/ SpawnWorker
  \/ SpawnDone
  \/ Collect
  \/ CollectEnd
  \/ Threshold
  \/ AnnualAggregate
  \/ Package
  \/ \E w \in Workers : GetTask(w)
  \/ \E w \in Workers : CheckConfigDir(w)
  \/ \E w \in Workers : MakeConfigDir(w)
  \/ \E w \in Workers : RecheckConfigDir(w)
  \/ \E w \in Workers : TempName(w)
  \/ \E w \in Workers : GenerateConfig(w)
  \/ \E w \in Workers : RunRegression(w)
  \/ \E w \in Workers : RemoveConfig(w)
  \/ \E w \in Workers : PutResult(w)

KindSpec == KindInit /\ [][KindNext]_vars

\* the steps of the controller process and of one worker process
ControllerStep ==
  \/ ParseArgs \/ Validate \/ ReadList \/ Resolve \/ SeasonalSummaries
  \/ ReadFiltered
  \/ ModelLookup \/ Enqueue \/ SpawnWorker \/ SpawnDone \/ Collect
  \/ CollectEnd \/ Threshold \/ AnnualAggregate \/ Package

WorkerStep(w) ==
  \/ GetTask(w) \/ CheckConfigDir(w) \/ MakeConfigDir(w)
  \/ RecheckConfigDir(w) \/ TempName(w) \/ GenerateConfig(w)
  \/ RunRegression(w) \/ RemoveConfig(w) \/ PutResult(w)

\* every process is an operating-system process of its own and every call
\* of a collaborator returns: a process that can take a step takes one
Fairness ==
  /\ WF_vars(ControllerStep)
  /\ \A w \in Workers : WF_vars(WorkerStep(w))

FairSpec == Spec /\ Fairness

\* ------------------------------------------------------ derived state
\* a worker is inside sceneBoostedRegression, or holds its status before put
InFlight(w) ==
  worker[w].pc \in {"chkdir", "mkdir", "recheck", "tmp", "gen", "run",
                    "remove", "put"}

\* a worker holds a config file name it is still to use or remove
HoldsConfig(w) == worker[w].pc \in {"gen", "run", "remove"}

\* the worker process has ended: Queue.Empty, or an uncaught exception
Ended(w) == worker[w].pc \in {"exited", "dead"}

\* items taken off the work queue so far (the queue is loaded once)
Dequeued == num_boosted_scenes - Len(work_queue)

\* statuses put on the result queue so far
StatusesPut == i + Len(result_queue)

\* the items loaded on the work queue (meaningful once sr_list is the
\* filtered list, from line 415 on)
WorkItems ==
  LET q == LoadQueue(sr_list, 1, start_year) IN {q[k] : k \in 1..Len(q)}

\* runBurnedArea is past the collecting loop, or returned from inside it
LeftRegression ==
  \/ pc \in {"threshold", "annual", "package"}
  \/ /\ pc = "returned"
     /\ stage["ModelLookup"] = "SUCCESS"

\* runBurnedArea returned ERROR at line 481, on a failed regression status
ReturnedOnRegressionError ==
  /\ pc = "returned"
  /\ ret = ERROR
  /\ stage["ModelLookup"] = "SUCCESS"
  /\ stage["Threshold"] = NotRun

\* the process of the script has ended: runBurnedArea returned to line 581,
\* an exception left it, or parse_args() ended the process
Terminated == pc \in {"returned", "raised", "exit_usage", "exit_help"}

\* line 581: sys.exit(BurnedArea().runBurnedArea()); the interpreter ends
\* with status 1 on an uncaught exception, argparse with 2 on a usage error
\* and with 0 after -h
ExitStatus ==
  CASE pc = "returned" -> ret
    [] pc = "raised" -> 1
    [] pc = "exit_usage" -> 2
    [] pc = "exit_help" -> 0
    [] OTHER -> NoStatus

\* -------------------------------------------------------------- claims

\* C1: the controller takes exactly K = num_boosted_scenes statuses off the
\* result queue before it leaves the Regression stage, also when a job
\* returned a failure status.
C1_CollectsAllResults == LeftRegression => i = num_boosted_scenes

\* C2: once runBurnedArea has changed to the output directory, every return
\* restores the working directory it found on entry.
C2_CwdRestoredOnReturn ==
  (pc = "returned" /\ mydir # NoDir) => cwd = mydir

C4_UniqueDescriptorNames ==
  \A w1, w2 \in Workers :
    (w1 # w2 /\ HoldsConfig(w1) /\ HoldsConfig(w2))
      => worker[w1].config_file # worker[w2].config_file

\* C5: when runBurnedArea returns ERROR because of a failed regression
\* status, the work queue is empty and no regression job is in flight.
C5_FailureReportedAfterDrain ==
  ReturnedOnRegressionError
    => (work_queue = <<>> /\ \A w \in Workers : ~InFlight(w))

\* C6: if the job of any work item returned a non-SUCCESS status, none of
\* Threshold, AnnualAggregate and Package is reached or invoked, and
\* runBurnedArea does not return SUCCESS: when it returns, it returns ERROR.
C6_TaskFailureFailsStack ==
  (\E x \in Items : job_result[x] = "ERROR")
    => /\ pc \notin {"threshold", "annual", "package"}
       /\ stage["Threshold"] = NotRun
       /\ stage["AnnualAggregate"] = NotRun
       /\ stage["Package"] = NotRun
       /\ (pc = "returned" => ret = ERROR)

\* under FairSpec the failure is also reported: once a job returned ERROR,
\* runBurnedArea eventually returns ERROR
TaskFailureEventuallyReported ==
  (\E x \in Items : job_result[x] = "ERROR")
    ~> (pc = "returned" /\ ret = ERROR)

\* a job returned ERROR, another one SUCCESS, and runBurnedArea returned
\* ERROR from the collecting loop
C6_Witness ==
  /\ \E x \in Items : job_result[x] = "ERROR"
  /\ \E x \in Items : job_result[x] = "SUCCESS"
  /\ ReturnedOnRegressionError

\* C7: stage order. No worker runs before SeasonalSummaries returned
\* SUCCESS; Threshold is not reached or invoked while an item is queued or
\* in flight; AnnualAggregate is invoked only after Threshold returned,
\* Package only after AnnualAggregate returned.
C7_StageOrder ==
  /\ (\E w \in Workers : worker[w].pc # "idle")
       => stage["SeasonalSummaries"] = "SUCCESS"
  /\ (pc = "threshold" \/ stage["Threshold"] # NotRun)
       => /\ work_queue = <<>>
          /\ \A w \in Workers : ~InFlight(w)
          /\ \A x \in WorkItems : job_result[x] = "SUCCESS"
  /\ (pc = "annual" \/ stage["AnnualAggregate"] # NotRun)
       => stage["Threshold"] = "SUCCESS"
  /\ (pc = "package" \/ stage["Package"] # NotRun)
       => stage["AnnualAggregate"] = "SUCCESS"

\* a run with two regression jobs on two workers that reached Package
C7_Witness ==
  /\ stage["Package"] # NotRun
  /\ num_boosted_scenes >= 2
  /\ started >= 2

\* C8: a failure of SeasonalSummaries, Threshold or AnnualAggregate is
\* terminal: runBurnedArea has returned ERROR and no later stage was
\* invoked (no worker started, no Threshold, no AnnualAggregate, no zip).
C8_StageFailureTerminal ==
  /\ stage["SeasonalSummaries"] = "ERROR"
       => /\ pc = "returned" /\ ret = ERROR
          /\ started = 0
          /\ \A w \in Workers : worker[w].pc = "idle"
          /\ \A s \in Stages \ {"SeasonalSummaries"} : stage[s] = NotRun
  /\ stage["Threshold"] = "ERROR"
       => /\ pc = "returned" /\ ret = ERROR
          /\ stage["AnnualAggregate"] = NotRun
          /\ stage["Package"] = NotRun
  /\ stage["AnnualAggregate"] = "ERROR"
       => /\ pc = "returned" /\ ret = ERROR
          /\ stage["Package"] = NotRun

\* Threshold failed after a regression stage that ran jobs
C8_Witness ==
  /\ stage["Threshold"] = "ERROR"
  /\ num_boosted_scenes >= 1
  /\ pc = "returned"

\* C9: every work item is dequeued by exactly one worker, and with at
\* least one worker no item is left on the queue once all workers ended.
C9_EachItemProcessedOnce ==
  /\ \A x \in Items : dequeues[x] <= 1
  /\ (/\ num_processors >= 1
      /\ pc \notin {"validate", "read_list", "resolve", "seasonal",
                    "read_filtered", "model_lookup", "load_queue", "spawn"}
      /\ stage["ModelLookup"] = "SUCCESS"
      /\ \A w \in 1..num_processors : Ended(w))
       => work_queue = <<>>

\* C10: a worker puts exactly one status for every item it dequeued before
\* it dequeues another item or ends: the statuses put equal the items
\* dequeued, less the jobs still in flight.
C10_OneStatusPerItem ==
  StatusesPut + Cardinality({w \in Workers : InFlight(w)}) = Dequeued

\* the pool has drained: nothing is queued and every worker process that
\* was started has left its loop on Queue.Empty
PoolDrained ==
  /\ work_queue = <<>>
  /\ started = num_processors
  /\ \A w \in 1..num_processors : worker[w].pc = "exited"

\* some job did not return: an exception left sceneBoostedRegression
JobRaised == \E x \in Items : job_result[x] = "raised"

\* C11: with at least one worker started, fair scheduling and jobs that
\* each return (no job raises), the pool eventually drains: the work queue
\* is empty and every worker has exited, also after a job reported failure
\* and runBurnedArea returned on it.
C11_PoolDrains == (started >= 1) ~> (PoolDrained \/ JobRaised)

\* the pool drained although the first status read was a failure and
\* runBurnedArea returned on it with a second item still to be processed
C11_Witness ==
  /\ PoolDrained
  /\ ~JobRaised
  /\ ReturnedOnRegressionError
  /\ num_boosted_scenes >= 2
  /\ i = 1

\* C12: the work queue is loaded once, completely, before any worker is
\* started: a step that adds items leaves no worker started, and once a
\* worker has been started every step leaves the queue as it is or takes
\* its head off, so its length only decreases.
C12_QueueLoadedBeforeWorkers ==
  [][/\ Len(work_queue') > Len(work_queue)
          => /\ started' = 0
             /\ \A w \in Workers : worker'[w].pc = "idle"
             /\ work_queue = <<>>
     /\ started >= 1
          => \/ work_queue' = work_queue
             \/ /\ work_queue # <<>>
                /\ work_queue' = Tail(work_queue)]_vars

\* a worker has taken an item off a queue that still holds another one
C12_Witness ==
  /\ started >= 1
  /\ work_queue # <<>>
  /\ Len(work_queue) < num_boosted_scenes

\* the work queue has just been loaded (lines 443-460), no worker started
QueueLoaded == pc = "spawn" /\ started = 0

\* C13: the work items are exactly the scenes of the filtered list
\* (input_list.txt), in list order, less every scene of year start_year;
\* they are not taken from the original scene list.
C13_WorkItemsFromFilteredList ==
  QueueLoaded
    => /\ sr_list = input_list
       /\ \A k \in 1..(Len(work_queue) - 1) : work_queue[k] < work_queue[k + 1]
       /\ {work_queue[k] : k \in 1..Len(work_queue)}
            = {p \in 1..Len(input_list) : YearOf(input_list[p]) # start_year}
       /\ num_boosted_scenes = Len(work_queue)

\* a filtered list of two scenes of which the first, of year start_year,
\* was left out
C13_Witness ==
  /\ QueueLoaded
  /\ Len(input_list) = 2
  /\ work_queue = <<2>>

\* C14: every scene handed to the regression pool has a year strictly
\* greater than start_year.
C14_ItemsAfterStartYear ==
  /\ \A k \in 1..Len(work_queue) : YearOf(sr_list[work_queue[k]]) > start_year
  /\ \A w \in Workers :
        worker[w].xml_file # 0 => YearOf(sr_list[worker[w].xml_file]) > start_year

\* the years of the scenes listed in sr_list
ListYears == {YearOf(sr_list[k]) : k \in 1..Len(sr_list)}

\* the messages of the three tests of the year range
YearMessages == {"start_year cannot begin before 1984",
                 "end_year cannot begin before 1984",
                 "end_year is less than start_year"}

\* the resolver loop has run to its end and sr_list is still the list read
\* from the scene list file: runBurnedArea is at processStack, or returned
\* from a test of the year range or from the failure of processStack
ResolverRan ==
  \/ pc = "seasonal"
  \/ /\ pc = "returned"
     /\ logged \in YearMessages \cup {"Error running seasonal summaries"}

\* C15: for every non-empty scene list of parsable names, after the
\* resolver loop start_year is the least and end_year the greatest of the
\* years of the listed scenes.
C15_YearRangeIsMinMax ==
  ResolverRan
    => /\ start_year \in ListYears
       /\ end_year \in ListYears
       /\ \A y \in ListYears : start_year <= y /\ y <= end_year

\* a list whose first scene is of the last year and whose second scene is
\* of the first year
C15_Witness ==
  /\ pc = "seasonal"
  /\ Len(sr_list) = 2
  /\ YearOf(sr_list[1]) = end_year
  /\ YearOf(sr_list[2]) = start_year
  /\ start_year < end_year

\* no stage has been invoked
NoStageRun == \A s \in Stages : stage[s] = NotRun

\* the year ranges the three tests of lines 373-393 are examined on
CheckedYears == Years \cup {StartYearInit, EndYearInit}

\* C16: the resolver rejects the stack (runBurnedArea returns ERROR before
\* any stage runs) whenever a listed scene is of a year below 1984, and the
\* test of the year range rejects every range with end_year < start_year;
\* each rejection logs its own message.
C16_YearsRejected ==
  /\ (ResolverRan /\ \E y \in ListYears : y < FirstYear)
       => /\ pc = "returned"
          /\ ret = ERROR
          /\ logged = "start_year cannot begin before 1984"
          /\ NoStageRun
  /\ (pc \notin {"validate", "read_list", "resolve", "raised"}
        /\ mydir # NoDir /\ sr_list # <<>> /\ end_year < start_year)
       => /\ pc = "returned"
          /\ ret = ERROR
          /\ logged \in YearMessages
          /\ NoStageRun
  /\ \A sy, ey \in CheckedYears :
        /\ ey < sy => YearCheck(sy, ey) \in YearMessages
        /\ (ey < sy /\ ey >= FirstYear)
             => YearCheck(sy, ey) = "end_year is less than start_year"
        /\ sy < FirstYear
             => YearCheck(sy, ey) = "start_year cannot begin before 1984"

\* a list with a scene of 1983 after a scene of a valid year was rejected
C16_Witness ==
  /\ pc = "returned"
  /\ ret = ERROR
  /\ logged = "start_year cannot begin before 1984"
  /\ Len(sr_list) = 2
  /\ YearOf(sr_list[1]) >= FirstYear
  /\ YearOf(sr_list[2]) < FirstYear

\* the list read from the scene list file is empty or holds a name that
\* cannot be parsed, and runBurnedArea is past the resolver
UnusableListResolved ==
  /\ mydir # NoDir
  /\ stage["SeasonalSummaries"] # "SUCCESS"
  /\ pc \notin {"validate", "read_list", "resolve"}
  /\ \/ sr_list = <<>>
     \/ \E k \in 1..Len(sr_list) : ~Parsable(sr_list[k])

\* C17: when the scene list is empty or a scene name cannot be parsed at
\* the offsets [3:6], [6:9], [9:13], runBurnedArea returns ERROR and no
\* stage is invoked.
C17_UnusableListReturnsError ==
  UnusableListResolved => (pc = "returned" /\ ret = ERROR /\ NoStageRun)

\* the step is the resolver loop run to its end on the list of sr_list
ResolverStep == pc = "resolve" /\ pc' # "raised"

\* C18: path and row are those at the offsets [3:6] and [6:9] of the first
\* listed scene; a list whose later scenes are of another path/row is
\* accepted when its years are; path and row are never assigned again, and
\* the model looked up and the archive are named after them.
C18_PathRowOfFirstScene ==
  [][/\ ResolverStep
          => /\ path' = PathOf(sr_list[1])
             /\ row' = RowOf(sr_list[1])
             /\ (\A y \in ListYears : y >= FirstYear) => pc' = "seasonal"
     /\ pc \notin {"validate", "read_list", "resolve"}
          => /\ path' = path
             /\ row' = row
     /\ model_file' # model_file => model_file' = <<path', row'>>
     /\ zip_file' # zip_file => zip_file' = <<path', row'>>]_vars

\* a list whose first scene is of path/row 35/32 and whose second scene is
\* of 17/39 was accepted with path/row 35/32
C18_Witness ==
  /\ pc = "seasonal"
  /\ Len(sr_list) = 2
  /\ PathOf(sr_list[1]) = 35 /\ RowOf(sr_list[1]) = 32
  /\ PathOf(sr_list[2]) = 17 /\ RowOf(sr_list[2]) = 39
  /\ path = 35 /\ row = 32

\* the archive of such a run is named after 35/32, the model looked up was
\* that of 35/32, and the scenes processed are of 17/39
StrayArchive ==
  /\ stage["Package"] = "SUCCESS"
  /\ zip_file = <<35, 32>>
  /\ model_file = <<35, 32>>
  /\ PathOf(sr_list[1]) = 17

\* the items whose job was started
ItemsRun == {x \in Items : dequeues[x] >= 1}

C20_ModelLookupBeforePool ==
  /\ stage["ModelLookup"] # NotRun => stage["SeasonalSummaries"] = "SUCCESS"
  /\ (started >= 1 \/ work_queue # <<>> \/ num_boosted_scenes >= 1
        \/ \E w \in Workers : worker[w].pc # "idle")
       => stage["ModelLookup"] = "SUCCESS"
  /\ stage["ModelLookup"] = "ERROR"
       => /\ pc = "returned"
          /\ ret = ERROR
          /\ logged = "Model file for path/row does not exist"
          /\ work_queue = <<>>
          /\ num_boosted_scenes = 0
          /\ started = 0
          /\ \A w \in Workers : worker[w].pc = "idle"
          /\ \A x \in Items : dequeues[x] = 0

\* the model file was missing for a filtered list with a scene to process
C20_Witness ==
  /\ stage["ModelLookup"] = "ERROR"
  /\ pc = "returned"
  /\ num_processors >= 1
  /\ \E p \in 1..Len(sr_list) : YearOf(sr_list[p]) # start_year

\* C21: Package is reached only after AnnualAggregate returned SUCCESS; when
\* the archive of the stack's path/row does not exist after the zip step
\* runBurnedArea returns ERROR, otherwise it returns SUCCESS.
C21_PackageOutcome ==
  /\ (pc = "package" \/ stage["Package"] # NotRun) =>
        stage["AnnualAggregate"] = "SUCCESS"
  /\ stage["Package"] # NotRun =>
        /\ pc = "returned"
        /\ zip_file = <<path, row>>
  /\ stage["Package"] = "ERROR" =>
        /\ ret = ERROR
        /\ logged = "Error creating the zip file"
  /\ stage["Package"] = "SUCCESS" => ret = SUCCESS
  /\ ret = SUCCESS => stage["Package"] = "SUCCESS"

\* the zip step left no archive and runBurnedArea returned
C21_Witness ==
  /\ stage["Package"] = "ERROR"
  /\ stage["AnnualAggregate"] = "SUCCESS"
  /\ pc = "returned"

\* C22: a worker whose os.makedirs failed goes on to the temporary file when
\* the config directory exists at its recheck (a sibling made it), and
\* sceneBoostedRegression returns the config-directory error only from that
\* recheck, when the directory still does not exist.
C22_RacingCreation ==
  [][\A w \in Workers :
       /\ (worker[w].pc = "recheck" /\ worker'[w].pc # "recheck") =>
             IF config_dir
               THEN /\ worker'[w].pc = "tmp"
                    /\ job_result' = job_result
               ELSE /\ worker'[w].pc = "put"
                    /\ worker'[w].status = ERROR
       /\ (worker[w].pc \in {"chkdir", "mkdir", "recheck"}
            /\ worker'[w].pc = "put") =>
             /\ worker[w].pc = "recheck"
             /\ ~config_dir]_vars

\* a worker's os.makedirs failed and a sibling has made the directory: the
\* worker found it absent at line 117 and has not created it itself
C22_Witness ==
  \E w \in Workers :
    /\ worker[w].pc = "recheck"
    /\ config_dir
    /\ \E v \in Workers \ {w} : worker[v].pc \in {"tmp", "gen", "run"}

C24_ExitStatus ==
  Terminated =>
    /\ ExitStatus \in {SUCCESS, ERROR}
    /\ ExitStatus = SUCCESS <=> \A s \in Stages : stage[s] = "SUCCESS"

\* the part of C24 that holds: a run that got past parse_args() ends with 0
\* exactly when every stage succeeded and with 1 otherwise
ExitStatusAfterParsing ==
  pc \in {"returned", "raised"} =>
    /\ ExitStatus \in {SUCCESS, ERROR}
    /\ ExitStatus = SUCCESS <=> \A s \in Stages : stage[s] = "SUCCESS"

\* the year range of the scene list fails one of the tests of lines 373-393
YearsInvalid ==
  /\ ResolverRan
  /\ YearCheck(start_year, end_year) # NoMessage

\* runBurnedArea is past the tests of lines 305-321 or left from them
PastValidation ==
  pc \notin {"parse_args", "exit_usage", "exit_help", "validate"}

\* C25: when the scene list file, the input directory or the model
\* directory does not exist, or the year range is invalid, runBurnedArea
\* returns ERROR and no stage has been invoked.
C25_EagerValidation ==
  /\ (PastValidation /\ FirstMissing(missing) # NoMessage) =>
        /\ pc = "returned"
        /\ ret = ERROR
        /\ logged = FirstMissing(missing)
        /\ NoStageRun
  /\ YearsInvalid =>
        /\ pc = "returned"
        /\ ret = ERROR
        /\ NoStageRun

\* the part of C25 that holds: in those cases runBurnedArea ends, by a
\* return of ERROR or by an exception, and no stage has been invoked
ValidationBeforeStages ==
  ((PastValidation /\ FirstMissing(missing) # NoMessage) \/ YearsInvalid) =>
    /\ \/ pc = "returned" /\ ret = ERROR
       \/ pc = "raised"
    /\ NoStageRun

\* the filtered list names one scene twice and sceneBoostedRegression has
\* returned for both entries
SameSceneTwice ==
  /\ stage["ModelLookup"] = "SUCCESS"
  /\ Len(sr_list) = 2
  /\ sr_list[1] = sr_list[2]
  /\ WorkItems = {1, 2}
  /\ \A x \in WorkItems : job_result[x] \in {"SUCCESS", "ERROR"}

C28_DescriptorsNotShared ==
  \A w \in Workers :
    worker[w].pc \in {"run", "remove"} =>
      \A v \in Workers \ {w} :
        ~(/\ InFlight(v)
          /\ worker[v].xml_file # worker[w].xml_file
          /\ descriptor[worker[w].config_file] = worker[v].xml_file)

\* line 479: the scene named in the message is sr_list[i], i counting the
\* statuses taken off the result queue before this one; as a position of
\* sr_list from 1 that is the number of statuses taken so far
NamedScene == sr_list[i]

\* C29: when the controller logs a regression failure, the scene it names
\* is the scene of a job that returned the failure status.
C29_NamedSceneFailed ==
  ReturnedOnRegressionError =>
    \E x \in WorkItems :
      /\ job_result[x] = "ERROR"
      /\ sr_list[x] = NamedScene

\* C30: the four kinds of worker implement one pool protocol; whatever the
\* kind, the worker class is there to be started and to run its loop: no
\* program running a pool stops at loading the class.
C30_EveryKindRuns == pc # "import_failed"

\* the work queue has been loaded from a filtered list whose scenes are all
\* of start_year
NothingToRegress ==
  /\ stage["ModelLookup"] = "SUCCESS"
  /\ pc # "load_queue"
  /\ \A k \in 1..Len(sr_list) : YearOf(sr_list[k]) = start_year

\* C31: with no regression work item the Regression stage does nothing: no
\* item is queued or dequeued, the controller collects no status and is not
\* held at the result queue, a started worker is before or after its single
\* dequeue attempt, and runBurnedArea does not return before Threshold ran.
C31_EmptyPoolIsNoOp ==
  NothingToRegress =>
    /\ num_boosted_scenes = 0
    /\ work_queue = <<>>
    /\ result_queue = <<>>
    /\ i = 0
    /\ \A x \in Items : dequeues[x] = 0
    /\ \A w \in Workers : worker[w].pc \in {"idle", "get", "exited"}
    /\ pc = "collect" => ENABLED CollectEnd
    /\ pc = "returned" => stage["Threshold"] # NotRun

\* the controller is at Threshold after a pool without items whose workers
\* have all exited
C31_Witness ==
  /\ NothingToRegress
  /\ pc = "threshold"
  /\ num_processors >= 2
  /\ \A w \in 1..num_processors : worker[w].pc = "exited"

\* the items in the order in which line 459 queued them
Enqueued == LoadQueue(sr_list, 1, start_year)

\* a step in which worker w puts the status of its item (line 64)
Puts(w) == worker[w].pc = "put" /\ worker'[w].pc # "put"

\* C32: statuses reach the controller in the order in which the workers put
\* them: each put appends to the result queue and each get takes its head.
\* With one worker the n-th status put, hence the n-th collected, is the
\* one of the n-th item queued; with two workers or more the first status
\* collected can be the one of the second item (C32_Witness).
C32_ArrivalOrder ==
  [][/\ \A w \in Workers :
          Puts(w) =>
            /\ result_queue' = Append(result_queue, worker[w].status)
            /\ num_processors = 1 =>
                  /\ StatusesPut < Len(Enqueued)
                  /\ worker[w].xml_file = Enqueued[StatusesPut + 1]
     /\ i' # i => /\ i' = i + 1
                  /\ result_queue' = Tail(result_queue)]_vars

\* two workers: the controller has collected one status while the job of
\* the item queued first has not ended, so that status is the one of the
\* item queued second
C32_Witness ==
  /\ num_processors >= 2
  /\ Len(Enqueued) = 2
  /\ stage["ModelLookup"] = "SUCCESS"
  /\ i = 1
  /\ result_queue = <<>>
  /\ job_result[Enqueued[1]] = "none"
  /\ job_result[Enqueued[2]] = "SUCCESS"
  /\ \E w \in Workers : InFlight(w) /\ worker[w].xml_file = Enqueued[1]

\* C33: there is no timeout: a worker whose predict_burned_area never ends
\* stays where it is (it takes no other item and puts no status), fewer
\* than num_boosted_scenes statuses are ever put, and runBurnThreshold is
\* never invoked.
C33_HungJobBlocksStack ==
  [][\A w \in Workers :
       /\ worker[w].pc = "hung" => worker'[w] = worker[w]
       /\ worker'[w].pc = "hung" =>
             /\ job_result'[worker'[w].xml_file] = "none"
             /\ i' + Len(result_queue') < num_boosted_scenes'
             /\ pc' \notin {"threshold", "annual", "package"}
             /\ stage'["Threshold"] = NotRun]_vars

\* one of two workers hangs, the other has processed the rest and exited,
\* and the controller waits at the result queue for the last status
C33_Witness ==
  /\ num_processors = 2
  /\ num_boosted_scenes = 2
  /\ pc = "collect"
  /\ i = 1
  /\ result_queue = <<>>
  /\ \E w, v \in Workers :
       /\ worker[w].pc = "hung"
       /\ worker[v].pc = "exited"

\* C34: within one call of sceneBoostedRegression the steps run in order
\* and none is retried: the worker comes to runBoostedRegression only from
\* a runGenerateConfig that wrote the config file and returned SUCCESS,
\* leaves it after one call, and never comes back to an earlier step before
\* the call of sceneBoostedRegression has ended; a failed config directory
\* or a failed runGenerateConfig ends the call with ERROR.
C34_StepsInOrderNoRetry ==
  [][\A w \in Workers :
       /\ (worker'[w].pc = "run" /\ worker[w].pc # "run") =>
             /\ worker[w].pc = "gen"
             /\ descriptor'[worker[w].config_file] = worker[w].xml_file
       /\ (worker[w].pc = "run" /\ worker'[w] # worker[w]) =>
             worker'[w].pc \in {"remove", "put", "dead"}
       /\ worker[w].pc = "remove" =>
             worker'[w].pc \in {"remove", "put", "dead"}
       /\ (worker[w].pc \in {"recheck", "gen"} /\ worker'[w].pc = "put") =>
             worker'[w].status = ERROR
       /\ (worker[w].pc = "put" /\ worker'[w] # worker[w]) =>
             worker'[w].pc = "get"
       /\ (InFlight(w) /\ InFlight(w)') =>
             worker'[w].xml_file = worker[w].xml_file]_vars

\* a worker whose runGenerateConfig succeeded has made its one call of
\* predict_burned_area, which exited with status zero
C34_Witness ==
  \E w \in Workers :
    /\ worker[w].pc = "remove"
    /\ descriptor[worker[w].config_file] = worker[w].xml_file

\* C35: runBoostedRegression leaves the working directory as it found it:
\* no step before the chdir of line 122 changes it, line 111 saves it, and
\* whichever way the call of predict_burned_area ends the working directory
\* is the saved one again.
C35_RegressionRestoresCwd ==
  [][/\ pc = "reg_isfile" => cwd' = cwd
     /\ (pc = "reg_access" /\ pc' = "reg_returned") => cwd' = cwd
     /\ (pc = "reg_access" /\ pc' = "reg_call") => mydir' = cwd
     /\ (pc = "reg_call" /\ pc' # "reg_call") => cwd' = mydir]_vars

\* the part of C35 that holds: the same for every way that ends in a return
RegressionRestoresCwdOnReturn ==
  [][/\ pc = "reg_isfile" => cwd' = cwd
     /\ (pc = "reg_access" /\ pc' = "reg_returned") => cwd' = cwd
     /\ (pc = "reg_access" /\ pc' = "reg_call") => mydir' = cwd
     /\ (pc = "reg_call" /\ pc' = "reg_returned") => cwd' = mydir]_vars

\* the controller is inside result_queue.get() (line 477) with nothing to
\* take, and every worker process has ended: no status will ever come
WaitsInVain ==
  /\ num_processors >= 1
  /\ pc = "collect"
  /\ ~CollectLoopEnds
  /\ result_queue = <<>>
  /\ started = num_processors
  /\ \A w \in 1..num_processors : Ended(w)

\* C36: with at least one worker and every job ending (by SUCCESS, by
\* ERROR or by an exception) the controller never waits on the result
\* queue for a status that no worker will produce.
C36_NeverWaitsInVain == ~WaitsInVain

\* C37: whenever Threshold or AnnualAggregate is invoked, the year range
\* passed to it is not empty: its first year (start_year + 1) is at most
\* its last (end_year).
C37_YearRangeNonEmpty ==
  \A s \in YearStages :
    years_arg[s] # <<>> => years_arg[s][1] <= years_arg[s][2]

\* the resolver loop (lines 350-371) has run over a non-empty list of
\* parsable names
ResolverLoopDone ==
  /\ mydir # NoDir
  /\ pc \notin {"read_list", "resolve", "raised"}
  /\ logged # "error reading the list of scenes"

\* C38: after the resolver loop over a non-empty parsable list end_year is
\* never less than start_year, and runBurnedArea never takes the return
\* that logs 'end_year is less than start_year'.
C38_EndNotBeforeStart ==
  /\ ResolverLoopDone => end_year >= start_year
  /\ logged # "end_year is less than start_year"

\* the loop has run over a list naming a later year before an earlier one
C38_Witness ==
  /\ pc = "seasonal"
  /\ Len(sr_list) = 2
  /\ YearOf(sr_list[1]) > YearOf(sr_list[2])
  /\ start_year = YearOf(sr_list[2])
  /\ end_year = YearOf(sr_list[1])

\* C39: runGenerateConfig makes its existence tests before it opens the
\* config file: a call that ends with ERROR leaves every config file as it
\* was, neither created nor modified.
C39_FailedCheckLeavesConfig ==
  [][\A w \in Workers :
       (worker[w].pc = "gen" /\ worker'[w].pc = "put") =>
          /\ worker'[w].status = ERROR
          /\ descriptor' = descriptor]_vars

\* the only job taken so far got past the config directory and returned
\* ERROR, and the file of its name does not hold its configuration
C39_Witness ==
  \E w \in Workers :
    /\ worker[w].pc = "put"
    /\ worker[w].status = ERROR
    /\ config_dir
    /\ descriptor[worker[w].config_file] # worker[w].xml_file
    /\ \A x \in Items :
         dequeues[x] = IF x = worker[w].xml_file THEN 1 ELSE 0

====
